---- MODULE Spec2Model ----
(***************************************************************************)
(* A model of the Color class of mod.ts: an immutable color value in one   *)
(* of nine types (rgb, rgba, hsl, hsla, hsv, hsva, hwb, hwba, cmyk), its   *)
(* static constructors, its conversions and its manipulators.              *)
(*                                                                         *)
(* JavaScript numbers are modelled as exact rationals <<n, d>> in lowest   *)
(* terms with d > 0, extended with the three non-finite values of IEEE     *)
(* arithmetic: <<1, 0>> is Infinity, <<-1, 0>> is -Infinity and <<0, 0>>   *)
(* is NaN.  The sign of zero is not modelled.                              *)
(***************************************************************************)
EXTENDS Integers, Sequences, FiniteSets, TLC

VARIABLES heap, self, op, arg, ret, val, since

vars == <<heap, self, op, arg, ret, val, since>>

(***************************************************************************)
(* Numbers                                                                 *)
(***************************************************************************)
RECURSIVE GCD(_, _)
GCD(a, b) == IF b = 0 THEN a ELSE GCD(b, a % b)

Abs(n) == IF n < 0 THEN -n ELSE n

Sign(n) == IF n < 0 THEN -1 ELSE IF n > 0 THEN 1 ELSE 0

\* n/d divided through by g, a common divisor of n and d, for d > 0
Lowest(n, d, g) == <<n \div g, d \div g>>

\* the rational n/d in lowest terms; x/0 is an infinity or NaN
Q(n, d) ==
  IF d = 0 THEN <<Sign(n), 0>>
  ELSE Lowest(n * Sign(d), Abs(d), GCD(Abs(n), Abs(d)))

I(n) == <<n, 1>>

NaN == <<0, 0>>

Infinity == <<1, 0>>

\* the value of a parameter that the caller left out
undefined == <<>>

isNaN(a) == a = NaN

isFinite(a) == a[2] # 0

Neg(a) == <<-a[1], a[2]>>

\* a + b on finite numbers, g the greatest common divisor of the denominators
AddFinite(a, b, g) ==
  Q(a[1] * (b[2] \div g) + b[1] * (a[2] \div g), (a[2] \div g) * b[2])

\* a + b
Add(a, b) ==
  IF isFinite(a) /\ isFinite(b) THEN AddFinite(a, b, GCD(a[2], b[2]))
  ELSE IF isNaN(a) \/ isNaN(b) THEN NaN
  ELSE IF isFinite(a) THEN b
  ELSE IF isFinite(b) THEN a
  ELSE IF a = b THEN a ELSE NaN

\* a - b
Sub(a, b) == Add(a, Neg(b))

\* a * b on finite numbers, cancelling g1 and g2 crosswise
MulFinite(a, b, g1, g2) ==
  <<(a[1] \div g1) * (b[1] \div g2), (a[2] \div g2) * (b[2] \div g1)>>

\* a * b
Mul(a, b) ==
  IF isFinite(a) /\ isFinite(b)
  THEN MulFinite(a, b, GCD(Abs(a[1]), b[2]), GCD(Abs(b[1]), a[2]))
  ELSE IF isNaN(a) \/ isNaN(b) \/ a[1] = 0 \/ b[1] = 0 THEN NaN
  ELSE <<Sign(a[1]) * Sign(b[1]), 0>>

\* 1 / b for a finite b other than 0
Inverse(b) == IF b[1] < 0 THEN <<-b[2], -b[1]>> ELSE <<b[2], b[1]>>

\* a / b
Div(a, b) ==
  IF isNaN(a) \/ isNaN(b) THEN NaN
  ELSE IF isFinite(b)
  THEN IF b[1] = 0
       THEN <<Sign(a[1]), 0>>
       ELSE IF isFinite(a) THEN Mul(a, Inverse(b)) ELSE <<a[1] * Sign(b[1]), 0>>
  ELSE IF isFinite(a) THEN I(0) ELSE NaN

\* a < b on finite numbers, g the greatest common divisor of the denominators
LtFinite(a, b, g) == a[1] * (b[2] \div g) < b[1] * (a[2] \div g)

\* a < b
Lt(a, b) ==
  IF isNaN(a) \/ isNaN(b) THEN FALSE
  ELSE IF isFinite(a) /\ isFinite(b) THEN LtFinite(a, b, GCD(a[2], b[2]))
  ELSE IF isFinite(a) THEN b[1] > 0
  ELSE IF isFinite(b) THEN a[1] < 0
  ELSE a[1] < b[1]

\* a === b, a == b on numbers
StrictEq(a, b) == a = b /\ ~isNaN(a)

\* the truth value of a number, as the left operand of || sees it
Truthy(a) == ~isNaN(a) /\ a # I(0)

Math_floor(a) == IF isFinite(a) THEN I(a[1] \div a[2]) ELSE a

\* Math.round rounds to the nearest integer, a half towards +Infinity
Math_round(a) ==
  IF a = undefined THEN NaN
  ELSE IF isFinite(a) THEN I((2 * a[1] + a[2]) \div (2 * a[2])) ELSE a

Max2(a, b) == IF isNaN(a) \/ isNaN(b) THEN NaN ELSE IF Lt(a, b) THEN b ELSE a

Min2(a, b) == IF isNaN(a) \/ isNaN(b) THEN NaN ELSE IF Lt(b, a) THEN b ELSE a

Math_max(a, b, c) == Max2(Max2(a, b), c)

Math_min(a, b, c) == Min2(Min2(a, b), c)

\* n % m of JavaScript on an integer n: the sign of the result is that of n
JsRem(n, m) == IF n < 0 THEN -((-n) % m) ELSE n % m

(***************************************************************************)
(* The Color value and its static constructors                             *)
(***************************************************************************)
COLOR_TYPES == {"rgb", "rgba", "hsl", "hsla", "hsv", "hsva", "hwb", "hwba", "cmyk"}

\* private constructor: transparency = alpha || 1
new_Color(channels, type, alpha) ==
  [channels |-> channels,
   type |-> type,
   transparency |-> IF alpha = undefined THEN I(1)
                    ELSE IF Truthy(alpha) THEN alpha ELSE I(1)]

Color_rgb(r, g, b) ==
  new_Color(<<Math_round(r), Math_round(g), Math_round(b)>>, "rgb", undefined)

Color_rgba(r, g, b, a) ==
  new_Color(<<Math_round(r), Math_round(g), Math_round(b)>>, "rgba", a)

Color_hsl(h, s, l) ==
  new_Color(<<Math_round(h), Math_round(s), Math_round(l)>>, "hsl", undefined)

Color_hsla(h, s, l, a) ==
  new_Color(<<Math_round(h), Math_round(s), Math_round(l)>>, "hsla", a)

Color_hsv(h, s, v) ==
  new_Color(<<Math_round(h), Math_round(s), Math_round(v)>>, "hsv", undefined)

Color_hsva(h, s, v, a) ==
  new_Color(<<Math_round(h), Math_round(s), Math_round(v)>>, "hsva", a)

\* the whiteness and blackness channels as the hwb constructors store them
hwbChannels(h, w, b) ==
  IF Lt(I(100), Add(w, b))
  THEN <<Math_round(h),
         Math_round(Mul(Div(w, Add(w, b)), I(100))),
         Math_round(Mul(Div(b, Add(w, b)), I(100)))>>
  ELSE <<Math_round(h), Math_round(w), Math_round(b)>>

Color_hwb(h, w, b) == new_Color(hwbChannels(h, w, b), "hwb", undefined)

Color_hwba(h, w, b, a) == new_Color(hwbChannels(h, w, b), "hwba", a)

Color_cmyk(c, m, y, k) ==
  new_Color(<<Math_round(c), Math_round(m), Math_round(y), Math_round(k)>>,
            "cmyk", undefined)

\* the static constructors on the channels of an array c: Color.rgb(c[0],
\* c[1], c[2]) and the like
rgbOfArray(c) == Color_rgb(c[1], c[2], c[3])

hslOfArray(c) == Color_hsl(c[1], c[2], c[3])

hsvOfArray(c) == Color_hsv(c[1], c[2], c[3])

hwbOfArray(c) == Color_hwb(c[1], c[2], c[3])

cmykOfArray(c) == Color_cmyk(c[1], c[2], c[3], c[4])

(***************************************************************************)
(* Conversions                                                             *)
(***************************************************************************)
\* A function of the source that computes a constant or a variable and then
\* uses it more than once is modelled in steps: an operator f_step takes what
\* f has computed so far as its parameters, computes the next constants of f
\* and passes them on to the next step.

\* hue2rgb after its two wrapping statements
hue2rgb_return(p, q, t) ==
  IF Lt(t, Q(1, 6)) THEN Add(p, Mul(Mul(Sub(q, p), I(6)), t))
  ELSE IF Lt(t, Q(1, 2)) THEN q
  ELSE IF Lt(t, Q(2, 3)) THEN Add(p, Mul(Mul(Sub(q, p), Sub(Q(2, 3), t)), I(6)))
  ELSE p

\* if (t > 1) t -= 1
hue2rgb_above(p, q, t) ==
  hue2rgb_return(p, q, IF Lt(I(1), t) THEN Sub(t, I(1)) ELSE t)

\* the arrow function hue2rgb of the hsl case of rgb(); if (t < 0) t += 1
hue2rgb(p, q, t) == hue2rgb_above(p, q, IF Lt(t, I(0)) THEN Add(t, I(1)) ELSE t)

rgbFromHsl_return(r, g, b) ==
  Color_rgb(Mul(r, I(255)), Mul(g, I(255)), Mul(b, I(255)))

rgbFromHsl_p(h, p, q) ==
  rgbFromHsl_return(hue2rgb(p, q, Add(h, Q(1, 3))), hue2rgb(p, q, h),
                    hue2rgb(p, q, Sub(h, Q(1, 3))))

rgbFromHsl_l(h, l, q) == rgbFromHsl_p(h, Sub(Mul(I(2), l), q), q)

rgbFromHsl_q(h, s, l) ==
  IF StrictEq(s, I(0)) THEN rgbFromHsl_return(l, l, l)
  ELSE rgbFromHsl_l(h, l, IF Lt(l, Q(1, 2)) THEN Mul(l, Add(I(1), s))
                          ELSE Sub(Add(l, s), Mul(l, s)))

\* the hsl case of rgb() on the channels ch
rgbFromHsl(ch) ==
  rgbFromHsl_q(Div(ch[1], I(360)), Div(ch[2], I(100)), Div(ch[3], I(100)))

\* switch (i % 6) on the remainder k, which sets r, g and b, and Color.rgb
\* on them; no case matches NaN or a negative k, and r, g and b are then 0
rgbFromHsv_switch(k, v, p, q, t) ==
  rgbOfArray(CASE k = 0 -> <<v, t, p>>
               [] k = 1 -> <<q, v, p>>
               [] k = 2 -> <<p, v, t>>
               [] k = 3 -> <<p, q, v>>
               [] k = 4 -> <<t, p, v>>
               [] k = 5 -> <<v, p, q>>
               [] OTHER -> <<I(0), I(0), I(0)>>)

rgbFromHsv_f(i, s, v, f) ==
  rgbFromHsv_switch(IF isFinite(i) THEN JsRem(i[1], 6) ELSE -1,
                    v,
                    Mul(v, Sub(I(1), s)),
                    Mul(v, Sub(I(1), Mul(f, s))),
                    Mul(v, Sub(I(1), Mul(Sub(I(1), f), s))))

rgbFromHsv_i(h, s, v, i) == rgbFromHsv_f(i, s, v, Sub(Mul(h, I(6)), i))

rgbFromHsv_h(h, s, v) == rgbFromHsv_i(h, s, v, Math_floor(Mul(h, I(6))))

\* the hsv case of rgb() on the channels ch; Color.rgb gets r, g and b as
\* they are, on the scale 0..1
rgbFromHsv(ch) ==
  rgbFromHsv_h(Div(ch[1], I(360)), Div(ch[2], I(100)), Div(ch[3], I(100)))

\* switch (i) on k, which sets r, g and b, and Color.rgb on them; the
\* default of the switch is the case of 0 and 6
rgbFromHwb_switch(k, v, n, wh) ==
  rgbOfArray(CASE k = 1 -> <<n, v, wh>>
               [] k = 2 -> <<wh, v, n>>
               [] k = 3 -> <<wh, n, v>>
               [] k = 4 -> <<n, wh, v>>
               [] k = 5 -> <<v, wh, n>>
               [] OTHER -> <<v, n, wh>>)

rgbFromHwb_n(i, v, wh, f) ==
  rgbFromHwb_switch(IF isFinite(i) THEN i[1] ELSE 0, v,
                    Add(wh, Mul(f, Sub(v, wh))), wh)

\* if ((i & 0x01) !== 0) f = 1 - f; ToInt32 of a number that is not finite is 0
rgbFromHwb_f(i, v, wh, f) ==
  rgbFromHwb_n(i, v, wh, IF isFinite(i) /\ i[1] % 2 = 1 THEN Sub(I(1), f) ELSE f)

rgbFromHwb_i(h, wh, bl, i) ==
  rgbFromHwb_f(i, Sub(I(1), bl), wh, Sub(Mul(I(6), h), i))

\* if (ratio > 1) { wh /= ratio; bl /= ratio }
rgbFromHwb_ratio(h, wh, bl, ratio) ==
  rgbFromHwb_i(h,
               IF Lt(I(1), ratio) THEN Div(wh, ratio) ELSE wh,
               IF Lt(I(1), ratio) THEN Div(bl, ratio) ELSE bl,
               Math_floor(Mul(I(6), h)))

rgbFromHwb_h(h, wh, bl) == rgbFromHwb_ratio(h, wh, bl, Add(wh, bl))

\* the hwb case of rgb() on the channels ch; Color.rgb gets r, g and b as
\* they are, on the scale 0..1
rgbFromHwb(ch) ==
  rgbFromHwb_h(Div(ch[1], I(360)), Div(ch[2], I(100)), Div(ch[3], I(100)))

rgbFromCmyk_c(c, m, y, k) ==
  Color_rgb(Mul(Mul(I(255), Sub(I(1), c)), Sub(I(1), k)),
            Mul(Mul(I(255), Sub(I(1), m)), Sub(I(1), k)),
            Mul(Mul(I(255), Sub(I(1), y)), Sub(I(1), k)))

\* the cmyk case of rgb() on the channels ch: c is divided by 360 and k is
\* read from channels[2], as the source has it
rgbFromCmyk(ch) ==
  rgbFromCmyk_c(Div(ch[1], I(360)), Div(ch[2], I(100)), Div(ch[3], I(100)),
                Div(ch[3], I(100)))

\* rgb() that hands the alpha of this on to the rgb Color
rgb_alphaKept(this) ==
  [(CASE this.type \in {"rgba", "rgb"} -> rgbOfArray(this.channels)
      [] this.type \in {"hsla", "hsl"} -> rgbFromHsl(this.channels)
      [] this.type \in {"hsva", "hsv"} -> rgbFromHsv(this.channels)
      [] this.type \in {"hwba", "hwb"} -> rgbFromHwb(this.channels)
      [] this.type = "cmyk" -> rgbFromCmyk(this.channels))
   EXCEPT !.transparency = this.transparency]

rgb(this) ==
  CASE this.type \in {"rgba", "rgb"} ->
         rgbOfArray(this.channels)
    [] this.type \in {"hsla", "hsl"} -> rgbFromHsl(this.channels)
    [] this.type \in {"hsva", "hsv"} -> rgbFromHsv(this.channels)
    [] this.type \in {"hwba", "hwb"} -> rgbFromHwb(this.channels)
    [] this.type = "cmyk" -> rgbFromCmyk(this.channels)

\* Every conversion other than rgb() calls this.rgb(), directly or through
\* the conversion that it calls, unless this has the type asked for.  For
\* each such conversion f, f_of(this, r) is f() on this given the Color r
\* that this.rgb() returns, and f(this) is f_of(this, rgb(this)).

\* Color.rgba on a channel array and an alpha
rgbaWith(c, a) == Color_rgba(c[1], c[2], c[3], a)

rgba_of(this, r) ==
  IF this.type = "rgba"
  THEN rgbaWith(this.channels, this.transparency)
  ELSE rgbaWith(r.channels, this.transparency)

rgba(this) == rgba_of(this, rgb(this))

\* switch (max) of hsl(); with no case matching, h is still (max + min) / 2
hslFromRgb_h(r, g, b, max, l, d) ==
  IF StrictEq(max, r)
  THEN Add(Div(Sub(g, b), d), IF Lt(g, b) THEN I(6) ELSE I(0))
  ELSE IF StrictEq(max, g) THEN Add(Div(Sub(b, r), d), I(2))
  ELSE IF StrictEq(max, b) THEN Add(Div(Sub(r, g), d), I(4))
  ELSE l

\* the else branch of hsl(), that ends with h *= 60
hslFromRgb_d(r, g, b, max, min, l, d) ==
  Color_hsl(Mul(hslFromRgb_h(r, g, b, max, l, d), I(60)),
            Mul(IF Lt(Q(1, 2), l) THEN Div(d, Sub(Sub(I(2), max), min))
                ELSE Div(d, Add(max, min)),
                I(100)),
            Mul(l, I(100)))

hslFromRgb_l(r, g, b, max, min, l) ==
  IF StrictEq(max, min)
  THEN Color_hsl(I(0), Mul(I(0), I(100)), Mul(l, I(100)))
  ELSE hslFromRgb_d(r, g, b, max, min, l, Sub(max, min))

hslFromRgb_max(r, g, b, max, min) ==
  hslFromRgb_l(r, g, b, max, min, Div(Add(max, min), I(2)))

hslFromRgb_r(r, g, b) ==
  hslFromRgb_max(r, g, b, Math_max(r, g, b), Math_min(r, g, b))

\* the arithmetic of hsl() on the channels c of this.rgba()
hslFromRgb(c) ==
  hslFromRgb_r(Div(c[1], I(255)), Div(c[2], I(255)), Div(c[3], I(255)))

hsl_of(this, r) ==
  IF this.type = "hsl"
  THEN hslOfArray(this.channels)
  ELSE hslFromRgb(rgba_of(this, r).channels)

hsl(this) == hsl_of(this, rgb(this))

\* Color.hsla on a channel array and an alpha
hslaWith(c, a) == Color_hsla(c[1], c[2], c[3], a)

hsla_of(this, r) ==
  IF this.type = "hsla"
  THEN hslaWith(this.channels, this.transparency)
  ELSE hslaWith(hsl_of(this, r).channels, this.transparency)

hsla(this) == hsla_of(this, rgb(this))

\* switch (max) of hsv(), whose first case is min
hsvFromRgb_h(r, g, b, max, min, d) ==
  IF StrictEq(max, min) THEN I(0)
  ELSE IF StrictEq(max, r)
  THEN Div(Add(Sub(g, b), Mul(d, IF Lt(g, b) THEN I(6) ELSE I(0))), Mul(I(6), d))
  ELSE IF StrictEq(max, g)
  THEN Div(Add(Sub(b, r), Mul(d, I(2))), Mul(I(6), d))
  ELSE IF StrictEq(max, b)
  THEN Div(Add(Sub(r, g), Mul(d, I(4))), Mul(I(6), d))
  ELSE I(0)

hsvFromRgb_d(r, g, b, max, min, d) ==
  Color_hsv(Mul(hsvFromRgb_h(r, g, b, max, min, d), I(360)),
            Mul(IF StrictEq(max, I(0)) THEN I(0) ELSE Div(d, max), I(100)),
            Mul(Div(max, I(255)), I(100)))

hsvFromRgb_max(r, g, b, max, min) ==
  hsvFromRgb_d(r, g, b, max, min, Sub(max, min))

hsvFromRgb_r(r, g, b) ==
  hsvFromRgb_max(r, g, b, Math_max(r, g, b), Math_min(r, g, b))

\* the arithmetic of hsv() on the channels c of this.rgba()
hsvFromRgb(c) == hsvFromRgb_r(c[1], c[2], c[3])

hsv_of(this, r) ==
  IF this.type = "hsv"
  THEN hsvOfArray(this.channels)
  ELSE hsvFromRgb(rgba_of(this, r).channels)

hsv(this) == hsv_of(this, rgb(this))

\* Color.hsva on a channel array and an alpha
hsvaWith(c, a) == Color_hsva(c[1], c[2], c[3], a)

hsva_of(this, r) ==
  IF this.type = "hsva"
  THEN hsvaWith(this.channels, this.transparency)
  ELSE hsvaWith(hsv_of(this, r).channels, this.transparency)

hsva(this) == hsva_of(this, rgb(this))

hwbFromHsv_h(h, s, v) ==
  Color_hwb(Mul(h, I(360)),
            Mul(Mul(Sub(I(1), s), v), I(100)),
            Mul(Sub(I(1), v), I(100)))

\* the arithmetic of hwb() on the channels c of this.hsv()
hwbFromHsv(c) ==
  hwbFromHsv_h(Div(c[1], I(360)), Div(c[2], I(100)), Div(c[3], I(100)))

hwb_of(this, r) ==
  IF this.type = "hwb"
  THEN hwbOfArray(this.channels)
  ELSE hwbFromHsv(hsv_of(this, r).channels)

hwb(this) == hwb_of(this, rgb(this))

\* Color.hwba on a channel array and an alpha
hwbaWith(c, a) == Color_hwba(c[1], c[2], c[3], a)

hwba_of(this, r) ==
  IF this.type = "hwba"
  THEN hwbaWith(this.channels, this.transparency)
  ELSE hwbaWith(hwb_of(this, r).channels, this.transparency)

hwba(this) == hwba_of(this, rgb(this))

\* the quotient without `|| 0`
OrZero_unguarded(x) == x

\* x || 0
OrZero(x) == IF Truthy(x) THEN x ELSE I(0)

cmykFromRgb_k(r, g, b, k) ==
  Color_cmyk(Mul(OrZero(Div(Sub(Sub(I(1), r), k), Sub(I(1), k))), I(100)),
             Mul(OrZero(Div(Sub(Sub(I(1), g), k), Sub(I(1), k))), I(100)),
             Mul(OrZero(Div(Sub(Sub(I(1), b), k), Sub(I(1), k))), I(100)),
             Mul(k, I(100)))

cmykFromRgb_r(r, g, b) ==
  cmykFromRgb_k(r, g, b, Math_min(Sub(I(1), r), Sub(I(1), g), Sub(I(1), b)))

\* the arithmetic of cmyk() on the channels ch of this.rgba()
cmykFromRgb(ch) ==
  cmykFromRgb_r(Div(ch[1], I(255)), Div(ch[2], I(255)), Div(ch[3], I(255)))

cmyk_of(this, r) ==
  IF this.type = "cmyk"
  THEN cmykOfArray(this.channels)
  ELSE cmykFromRgb(rgba_of(this, r).channels)

cmyk(this) == cmyk_of(this, rgb(this))

toType_of(this, colorType, r) ==
  CASE colorType = "rgb" -> r
    [] colorType = "rgba" -> rgba_of(this, r)
    [] colorType = "hsl" -> hsl_of(this, r)
    [] colorType = "hsla" -> hsla_of(this, r)
    [] colorType = "hsv" -> hsv_of(this, r)
    [] colorType = "hsva" -> hsva_of(this, r)
    [] colorType = "hwb" -> hwb_of(this, r)
    [] colorType = "hwba" -> hwba_of(this, r)
    [] colorType = "cmyk" -> cmyk_of(this, r)

\* toType with a slip in its switch: the case "cmyk" returns this.rgb()
toType_cmykAsRgb(this, colorType) ==
  toType_of(this, IF colorType = "cmyk" THEN "rgb" ELSE colorType, rgb(this))

toType(this, colorType) == toType_of(this, colorType, rgb(this))

\* toTransparent with a slip in its switch: the label "hsl" is missing from
\* the case of "hsla", and an hsl Color is converted to hsl
transparentType_hslKept(type) ==
  CASE type = "cmyk" -> "cmyk"
    [] type = "hsla" -> "hsla"
    [] type = "hsl" -> "hsl"
    [] type \in {"hsva", "hsv"} -> "hsva"
    [] type \in {"hwba", "hwb"} -> "hwba"
    [] type \in {"rgba", "rgb"} -> "rgba"

\* the type that toTransparent converts to, by the case of its switch
transparentType(type) ==
  CASE type = "cmyk" -> "cmyk"
    [] type \in {"hsla", "hsl"} -> "hsla"
    [] type \in {"hsva", "hsv"} -> "hsva"
    [] type \in {"hwba", "hwb"} -> "hwba"
    [] type \in {"rgba", "rgb"} -> "rgba"

toTransparent(this, type) == toType(this, transparentType(type))

(***************************************************************************)
(* Getters                                                                 *)
(***************************************************************************)
red(this) == rgb(this).channels[1]

green(this) == rgb(this).channels[2]

blue(this) == rgb(this).channels[3]

alpha(this) == this.transparency

hue(this) == hsl(this).channels[1]

(***************************************************************************)
(* Strings.  A string is the sequence of its characters, each a string of  *)
(* length one.                                                             *)
(***************************************************************************)
\* the digits that Number.prototype.toString writes, in the order of their
\* values
DIGITS ==
  <<"0", "1", "2", "3", "4", "5", "6", "7", "8", "9", "a", "b", "c", "d", "e", "f">>

\* the digits of the whole number n >= 0 in the given radix
RECURSIVE IntegerDigits(_, _)
IntegerDigits(n, radix) ==
  IF n < radix THEN <<DIGITS[n + 1]>>
  ELSE Append(IntegerDigits(n \div radix, radix), DIGITS[(n % radix) + 1])

\* the digits after the point of n / d, for 0 <= n < d; a fraction whose
\* digits do not end is cut after k digits
RECURSIVE FractionDigits(_, _, _, _)
FractionDigits(n, d, radix, k) ==
  IF n = 0 \/ k = 0 THEN <<>>
  ELSE <<DIGITS[((n * radix) \div d) + 1]>>
         \o FractionDigits((n * radix) % d, d, radix, k - 1)

\* a.toString(radix), and `${a}` of a template literal with the radix 10
Number_toString(a, radix) ==
  IF isNaN(a) THEN <<"N", "a", "N">>
  ELSE IF ~isFinite(a)
  THEN (IF a[1] < 0 THEN <<"-">> ELSE <<>>)
       \o <<"I", "n", "f", "i", "n", "i", "t", "y">>
  ELSE (IF a[1] < 0 THEN <<"-">> ELSE <<>>)
       \o IntegerDigits(Abs(a[1]) \div a[2], radix)
       \o (IF a[1] % a[2] = 0 THEN <<>>
           ELSE <<".">> \o FractionDigits(Abs(a[1]) % a[2], a[2], radix, 16))

string(this) ==
  CASE this.type = "cmyk" ->
         <<"c", "m", "y", "k", "(">> \o Number_toString(this.channels[1], 10)
         \o <<"%", ",", " ">> \o Number_toString(this.channels[2], 10)
         \o <<"%", ",", " ">> \o Number_toString(this.channels[3], 10)
         \o <<"%", ",", " ">> \o Number_toString(this.channels[4], 10)
         \o <<"%", ")">>
    [] this.type = "hsl" ->
         <<"h", "s", "l", "(">> \o Number_toString(this.channels[1], 10)
         \o <<",", " ">> \o Number_toString(this.channels[2], 10)
         \o <<"%", ",", " ">> \o Number_toString(this.channels[3], 10)
         \o <<"%", ")">>
    [] this.type = "hsla" ->
         <<"h", "s", "l", "a", "(">> \o Number_toString(this.channels[1], 10)
         \o <<",", " ">> \o Number_toString(this.channels[2], 10)
         \o <<"%", ",", " ">> \o Number_toString(this.channels[3], 10)
         \o <<",", " ">> \o Number_toString(this.transparency, 10)
         \o <<")">>
    [] this.type = "hsv" ->
         <<"h", "s", "v", "(">> \o Number_toString(this.channels[1], 10)
         \o <<",", " ">> \o Number_toString(this.channels[2], 10)
         \o <<"%", ",", " ">> \o Number_toString(this.channels[3], 10)
         \o <<"%", ")">>
    [] this.type = "hsva" ->
         <<"h", "s", "v", "a", "(">> \o Number_toString(this.channels[1], 10)
         \o <<",", " ">> \o Number_toString(this.channels[2], 10)
         \o <<"%", ",", " ">> \o Number_toString(this.channels[3], 10)
         \o <<"%", ",", " ">> \o Number_toString(this.transparency, 10)
         \o <<")">>
    [] this.type = "hwb" ->
         <<"h", "w", "b", "(">> \o Number_toString(this.channels[1], 10)
         \o <<",", " ">> \o Number_toString(this.channels[2], 10)
         \o <<"%", ",", " ">> \o Number_toString(this.channels[3], 10)
         \o <<"%", ")">>
    [] this.type = "hwba" ->
         <<"h", "w", "b", "a", "(">> \o Number_toString(this.channels[1], 10)
         \o <<",", " ">> \o Number_toString(this.channels[2], 10)
         \o <<"%", ",", " ">> \o Number_toString(this.channels[3], 10)
         \o <<"%", ",", " ">> \o Number_toString(this.transparency, 10)
         \o <<")">>
    [] this.type = "rgb" ->
         <<"r", "g", "b", "(">> \o Number_toString(this.channels[1], 10)
         \o <<",", " ">> \o Number_toString(this.channels[2], 10)
         \o <<",", " ">> \o Number_toString(this.channels[3], 10)
         \o <<")">>
    [] this.type = "rgba" ->
         <<"r", "g", "b", "a", "(">> \o Number_toString(this.channels[1], 10)
         \o <<",", " ">> \o Number_toString(this.channels[2], 10)
         \o <<",", " ">> \o Number_toString(this.channels[3], 10)
         \o <<",", " ">> \o Number_toString(this.transparency, 10)
         \o <<")">>

\* (r.length === 1 ? "0" : "") + r
hex_pad(r) == IF Len(r) = 1 THEN <<"0">> \o r ELSE r

hex(this) ==
  <<"#">> \o hex_pad(Number_toString(rgb(this).channels[1], 16))
  \o hex_pad(Number_toString(rgb(this).channels[2], 16))
  \o hex_pad(Number_toString(rgb(this).channels[3], 16))

(***************************************************************************)
(* Manipulators                                                            *)
(***************************************************************************)

\* a gray that weights the channels (2 r + 5 g + b) / 8
grayscale_gray_weighted(c) ==
  Div(Add(Add(Mul(I(2), c[1]), Mul(I(5), c[2])), c[3]), I(8))

\* (rgb[0] + rgb[1] + rgb[2]) / 3, the gray of grayscale
grayscale_gray(c) == Div(Add(Add(c[1], c[2]), c[3]), I(3))

\* while (hue < 0) hue += 360, the loop of rotate
RECURSIVE whileNegative(_)
whileNegative(h) == IF Lt(h, I(0)) THEN whileNegative(Add(h, I(360))) ELSE h

\* hue %= 360, on a hue that is not negative
Rem360(h) ==
  IF isFinite(h) THEN Sub(h, Mul(I(360), Math_floor(Div(h, I(360))))) ELSE NaN

\* the default value of the weight parameter of mix
defaultWeight == Q(1, 2)

mix_mixedColor(color1, color2, p, w1, w2) ==
  Color_rgba(Add(Mul(w1, red(color1)), Mul(w2, red(color2))),
             Add(Mul(w1, green(color1)), Mul(w2, green(color2))),
             Add(Mul(w1, blue(color1)), Mul(w2, blue(color2))),
             Add(Mul(alpha(color1), p), Mul(alpha(color2), Sub(I(1), p))))

\* mix with a slip: the weights w1 and w2 change places
mix_w1_swapped(color1, color2, p, w1) ==
  mix_mixedColor(color1, color2, p, Sub(I(1), w1), w1)

mix_w1(color1, color2, p, w1) ==
  mix_mixedColor(color1, color2, p, w1, Sub(I(1), w1))

mix_w(color1, color2, p, w, a) ==
  mix_w1(color1, color2, p,
         Div(Add(IF StrictEq(Mul(w, a), I(-1)) THEN w
                 ELSE Div(Add(w, a), Add(I(1), Mul(w, a))),
                 I(1)),
             I(2)))

mix_p(color1, color2, p) ==
  mix_w(color1, color2, p, Sub(Mul(I(2), p), I(1)),
        Sub(alpha(color1), alpha(color2)))

(***************************************************************************)
(* The program as a state machine.  heap holds the Color objects built so  *)
(* far, an object's identity being its index.  A call of the method op on  *)
(* the object self with the arguments arg returns the new object ret, or   *)
(* the number val when op is a getter (ret is then 0).  since is the       *)
(* object from which the latest object was derived by type-preserving      *)
(* manipulators alone.  A run is a chain of calls c.m1(..).m2(..)..., each *)
(* on the object the previous call returned, that may end with a getter.   *)
(***************************************************************************)
\* the most objects a run builds
MaxObjects == 3

\* calls of the static constructors that build the first object; the third
\* is the Color that rgb(0, 120, 75).negate().lighten(0.5).negate() ends in,
\* with channels below 0
Inputs ==
  {<<"rgb", I(255), I(0), I(0)>>,
   <<"rgb", I(0), I(120), I(75)>>,
   <<"rgb", I(0), I(-71), I(-45)>>,
   <<"rgba", I(10), I(10), I(10), Q(4, 5)>>,
   <<"hsl", I(100), I(50), I(50)>>,
   <<"hsla", I(100), I(50), I(0), I(0)>>,
   <<"hwb", I(0), Q(101, 2), Q(99, 2)>>,
   <<"cmyk", I(77), I(0), I(9), I(11)>>}

\* Color[type](...args)
Construct(in) ==
  CASE in[1] = "rgb" -> Color_rgb(in[2], in[3], in[4])
    [] in[1] = "rgba" -> Color_rgba(in[2], in[3], in[4], in[5])
    [] in[1] = "hsl" -> Color_hsl(in[2], in[3], in[4])
    [] in[1] = "hsla" -> Color_hsla(in[2], in[3], in[4], in[5])
    [] in[1] = "hsv" -> Color_hsv(in[2], in[3], in[4])
    [] in[1] = "hsva" -> Color_hsva(in[2], in[3], in[4], in[5])
    [] in[1] = "hwb" -> Color_hwb(in[2], in[3], in[4])
    [] in[1] = "hwba" -> Color_hwba(in[2], in[3], in[4], in[5])
    [] in[1] = "cmyk" -> Color_cmyk(in[2], in[3], in[4], in[5])

(***************************************************************************)
(* The parser Color.string                                                 *)
(***************************************************************************)
\* the letter ch in lower case, as the flag i of a regular expression and
\* Number.parseInt read it
toLowerCase(ch) ==
  CASE ch = "A" -> "a" [] ch = "B" -> "b" [] ch = "C" -> "c" [] ch = "D" -> "d"
    [] ch = "E" -> "e" [] ch = "F" -> "f" [] ch = "G" -> "g" [] ch = "H" -> "h"
    [] ch = "I" -> "i" [] ch = "J" -> "j" [] ch = "K" -> "k" [] ch = "L" -> "l"
    [] ch = "M" -> "m" [] ch = "N" -> "n" [] ch = "O" -> "o" [] ch = "P" -> "p"
    [] ch = "Q" -> "q" [] ch = "R" -> "r" [] ch = "S" -> "s" [] ch = "T" -> "t"
    [] ch = "U" -> "u" [] ch = "V" -> "v" [] ch = "W" -> "w" [] ch = "X" -> "x"
    [] ch = "Y" -> "y" [] ch = "Z" -> "z" [] OTHER -> ch

\* the value of the character ch as a digit of the given radix, or -1
DigitValue(ch, radix) ==
  IF \E v \in 0..(radix - 1) : DIGITS[v + 1] = toLowerCase(ch)
  THEN CHOOSE v \in 0..(radix - 1) : DIGITS[v + 1] = toLowerCase(ch)
  ELSE -1

\* the number that a string of digits of the given radix writes, as
\* Number.parseInt(digits, 16) reads it
RECURSIVE DigitsValue(_, _)
DigitsValue(digits, radix) ==
  IF digits = <<>> THEN 0
  ELSE radix * DigitsValue(SubSeq(digits, 1, Len(digits) - 1), radix)
       + DigitValue(digits[Len(digits)], radix)

\* input.match(/^#([0-9a-f]{n})$/i)
matchHex(input, n) ==
  /\ Len(input) = n + 1
  /\ input[1] = "#"
  /\ \A i \in 2..(n + 1) : DigitValue(input[i], 16) # -1

\* the names that /rgba?|hsla?|hsva?|hwba?|cmyk/ matches, by the color type
\* each of them spells
TypeNames ==
  [rgb |-> <<"r", "g", "b">>, rgba |-> <<"r", "g", "b", "a">>,
   hsl |-> <<"h", "s", "l">>, hsla |-> <<"h", "s", "l", "a">>,
   hsv |-> <<"h", "s", "v">>, hsva |-> <<"h", "s", "v", "a">>,
   hwb |-> <<"h", "w", "b">>, hwba |-> <<"h", "w", "b", "a">>,
   cmyk |-> <<"c", "m", "y", "k">>]

\* input.match(/^(?<type>rgba?|hsla?|hsva?|hwba?|cmyk)\((?<args>.*)\)/i):
\* the pairs <<k, j>> of the index k of the parenthesis that follows the name
\* and the index j of the parenthesis that closes args.  The name is matched
\* in either case; args ends at the last closing parenthesis that no line
\* terminator separates from the opening one.  There is no $ in the
\* expression: what follows index j is not looked at.
matchFunctional(input) ==
  {m \in (1..Len(input)) \X (1..Len(input)) :
     /\ m[1] < m[2]
     /\ input[m[1]] = "("
     /\ \E t \in COLOR_TYPES :
          TypeNames[t] = [i \in 1..(m[1] - 1) |-> toLowerCase(input[i])]
     /\ input[m[2]] = ")"
     /\ \A i \in (m[1] + 1)..(m[2] - 1) : input[i] \notin {"\n", "\r"}
     /\ \A i \in (m[2] + 1)..Len(input) :
          input[i] = ")" => \E l \in (m[2] + 1)..(i - 1) : input[l] \in {"\n", "\r"}}

\* isColorType(type): COLOR_TYPES.includes(type), which compares the name
\* as it is written
isColorType(type) == \E t \in COLOR_TYPES : TypeNames[t] = type

\* args.split(/\s|,/), token being the characters read since the last
\* separator; \s matches the characters of white space, the line terminators
\* among them
RECURSIVE split(_, _)
split(args, token) ==
  IF args = <<>> THEN <<token>>
  ELSE IF Head(args) \in {" ", "\t", "\n", "\r", "\f", ","}
  THEN <<token>> \o split(Tail(args), <<>>)
  ELSE split(Tail(args), Append(token, Head(args)))

\* num.includes(part)
includes(num, part) ==
  \E i \in 1..(Len(num) - Len(part) + 1) :
    SubSeq(num, i, i + Len(part) - 1) = part

\* the index after the decimal digits of num that start at index i
RECURSIVE DigitsEnd(_, _)
DigitsEnd(num, i) ==
  IF i <= Len(num) /\ DigitValue(num[i], 10) # -1 THEN DigitsEnd(num, i + 1)
  ELSE i

\* the number of the literal of num whose whole digits are at i..j-1 and
\* whose fraction digits, if k > j, are at j+1..k-1
parseFloat_value(num, sign, i, j, k) ==
  IF i = j /\ k <= j + 1 THEN NaN
  ELSE Q(sign * DigitsValue(SubSeq(num, i, j - 1) \o SubSeq(num, j + 1, k - 1), 10),
         10 ^ (IF k > j THEN k - j - 1 ELSE 0))

parseFloat_point(num, sign, i, j) ==
  parseFloat_value(num, sign, i, j,
                   IF j <= Len(num) /\ num[j] = "." THEN DigitsEnd(num, j + 1)
                   ELSE j)

parseFloat_sign(num, sign, i) ==
  IF i + 7 <= Len(num)
     /\ SubSeq(num, i, i + 7) = <<"I", "n", "f", "i", "n", "i", "t", "y">>
  THEN <<sign, 0>>
  ELSE parseFloat_point(num, sign, i, DigitsEnd(num, i))

\* Number.parseFloat(num) on a string that starts with no white space: the
\* number of the longest decimal literal that num starts with, or NaN.  The
\* exponent of a literal is not modelled: no string of the model has a
\* digit followed by e or E among its arguments.
parseFloat(num) ==
  IF num # <<>> /\ num[1] = "-" THEN parseFloat_sign(num, -1, 2)
  ELSE IF num # <<>> /\ num[1] = "+" THEN parseFloat_sign(num, 1, 2)
  ELSE parseFloat_sign(num, 1, 1)

\* the factor 360 / (2 * Math.PI) of rad is no fraction: 20340 / 355 is the
\* factor to seven digits
parseNumber(num) ==
  Mul(parseFloat(num),
      IF includes(num, <<"r", "a", "d">>) THEN Q(20340, 355)
      ELSE IF includes(num, <<"t", "u", "r", "n">>) THEN I(360)
      ELSE I(1))

\* the channels of args: the parts of args between its separators, without
\* the empty ones and those with a slash, as numbers.  trim() changes no
\* part, since a part has no white space in it.
channelsOf(args) ==
  [i \in DOMAIN SelectSeq(split(args, <<>>),
                          LAMBDA part : part # <<>> /\ ~includes(part, <<"/">>)) |->
     parseNumber(SelectSeq(split(args, <<>>),
                           LAMBDA part : part # <<>> /\ ~includes(part, <<"/">>))[i])]

\* the groups type and args of the match of the functional notation
groups(input) ==
  [type |-> SubSeq(input, 1, (CHOOSE m \in matchFunctional(input) : TRUE)[1] - 1),
   args |-> SubSeq(input, (CHOOSE m \in matchFunctional(input) : TRUE)[1] + 1,
                   (CHOOSE m \in matchFunctional(input) : TRUE)[2] - 1)]

\* Color.string(input): the Color that the parser returns, or a record with
\* the message of the Error that it throws.  Color[type](...channels) leaves
\* the parameters undefined for which channels has no element.
Color_string(input) ==
  IF matchHex(input, 3)
  THEN new_Color(<<I(DigitValue(input[2], 16) * 17),
                   I(DigitValue(input[3], 16) * 17),
                   I(DigitValue(input[4], 16) * 17)>>, "rgb", undefined)
  ELSE IF matchHex(input, 6)
  THEN new_Color(<<I(DigitsValue(SubSeq(input, 2, 3), 16)),
                   I(DigitsValue(SubSeq(input, 4, 5), 16)),
                   I(DigitsValue(SubSeq(input, 6, 7), 16))>>, "rgb", undefined)
  ELSE IF /\ matchFunctional(input) # {}
          /\ isColorType(groups(input).type)
          /\ groups(input).args # <<>>
          /\ Len(channelsOf(groups(input).args)) \in {3, 4}
  THEN Construct(<<CHOOSE t \in COLOR_TYPES : TypeNames[t] = groups(input).type>>
                 \o channelsOf(groups(input).args) \o <<undefined, undefined>>)
  ELSE [message |-> <<"C", "o", "l", "o", "r", " ">> \o input
                    \o <<" ", "i", "s", " ", "n", "o", "t", " ", "a", " ",
                         "v", "a", "l", "i", "d", " ", "c", "o", "l", "o", "r">>]

\* the strings that Color.string is called on: hex and functional notations,
\* with names in lower and in upper case, with characters after the closing
\* parenthesis, with an argument that is no number, and with two and with
\* five arguments
Texts ==
  {<<"#", "f", "0", "0">>,
   <<"#", "F", "F", "0", "0", "0", "0">>,
   <<"#", "1", "2">>,
   <<"r", "e", "d">>,
   <<"r", "g", "b", "(", "2", "5", "5", ",", " ", "0", ",", " ", "0", ")">>,
   <<"R", "G", "B", "(", "2", "5", "5", ",", " ", "0", ",", " ", "0", ")">>,
   <<"H", "s", "l", "(", "1", "0", "0", ",", " ", "5", "0", "%", ",", " ",
     "5", "0", "%", ")">>,
   <<"h", "s", "l", "(", "1", "0", "0", ",", " ", "5", "0", "%", ",", " ",
     "5", "0", "%", ")">>,
   <<"C", "M", "Y", "K", "(", "7", "7", "%", ",", " ", "0", "%", ",", " ",
     "9", "%", ",", " ", "1", "1", "%", ")">>,
   <<"c", "m", "y", "k", "(", "7", "7", "%", ",", " ", "0", "%", ",", " ",
     "9", "%", ",", " ", "1", "1", "%", ")">>,
   <<"r", "g", "b", "a", "(", "1", "0", " ", "1", "0", " ", "1", "0", " ",
     "/", " ", "0", ".", "8", ")">>,
   <<"r", "g", "b", "(", "2", "5", "5", ",", " ", "0", ",", " ", "0", ")",
     "x">>,
   <<"r", "g", "b", "(", "2", "5", "5", ",", " ", "0", ",", " ", "0", ",",
     " ", "x", ")">>,
   <<"r", "g", "b", "(", "2", "5", "5", ",", " ", "0", ",", " ", "0", ",",
     " ", "1", "t", "u", "r", "n", ")">>,
   <<"r", "g", "b", "(", "2", "5", "5", ",", " ", "0", ")">>,
   <<"r", "g", "b", "(", "2", "5", "5", ",", " ", "0", ",", " ", "0", ",",
     " ", "0", ",", " ", "0", ")">>}

\* arguments of the calls: a value that is no integer and that is in the
\* range of every channel
Values == {Q(199, 2)}

Alphas == {Q(1, 2)}

Factors == {Q(1, 2)}

Degrees == {I(-120), Q(519, 2)}

Weights == {undefined, I(0), Q(1, 4), I(1)}

\* the manipulators that return a Color of the receiver's type
TypePreserving ==
  {"setRed", "setGreen", "setBlue", "setHue", "setSaturation", "setLightness",
   "setValue", "setWhiteness", "setBlackness", "setCyan", "setMagenta",
   "setYellow", "setBlack", "negate", "lighten", "darken", "saturate",
   "desaturate", "rotate", "mix"}

\* The first object is built by a static constructor or by the parser; a
\* run in which the parser throws has no object, and ends there.
Init ==
  \/ \E in \in Inputs :
       /\ heap = <<Construct(in)>>
       /\ self = 0
       /\ op = "new"
       /\ arg = in
       /\ ret = 1
       /\ val = undefined
       /\ since = 1
  \/ \E input \in Texts :
       /\ heap = IF "message" \in DOMAIN Color_string(input) THEN <<>>
                 ELSE <<Color_string(input)>>
       /\ self = 0
       /\ op = "Color.string"
       /\ arg = <<input>>
       /\ ret = IF "message" \in DOMAIN Color_string(input) THEN 0 ELSE 1
       /\ val = IF "message" \in DOMAIN Color_string(input) THEN Color_string(input)
               ELSE undefined
       /\ since = 1

\* the object the next call of the chain is made on
tip == Len(heap)

\* a call that writes its result into the receiver instead of building a new
\* object, as a manipulator that assigned to this.channels would
Call_inPlace(name, o, args, result) ==
  /\ Len(heap) < MaxObjects
  /\ ret # 0
  /\ heap' = [heap EXCEPT ![o] = result]
  /\ self' = o
  /\ op' = name
  /\ arg' = args
  /\ ret' = o
  /\ val' = undefined
  /\ since' = since

\* the call name(args) on the object o returns the new object result
Call(name, o, args, result) ==
  /\ Len(heap) < MaxObjects
  /\ ret # 0
  /\ heap' = Append(heap, result)
  /\ self' = o
  /\ op' = name
  /\ arg' = args
  /\ ret' = Len(heap) + 1
  /\ val' = undefined
  /\ since' = IF name \in TypePreserving THEN since ELSE Len(heap) + 1

\* the getter name on the object o returns the number result
Get(name, o, result) ==
  /\ ret # 0
  /\ self' = o
  /\ op' = name
  /\ arg' = <<>>
  /\ ret' = 0
  /\ val' = result
  /\ UNCHANGED <<heap, since>>

ToType == \E t \in COLOR_TYPES : Call("toType", tip, <<t>>, toType(heap[tip], t))

ToTransparent ==
  \E t \in COLOR_TYPES : Call("toTransparent", tip, <<t>>, toTransparent(heap[tip], t))

\* A manipulator reads the channels of a conversion of this, builds a Color
\* from them with one channel replaced and converts it to the type of this.
SetRed ==
  \E value \in Values :
    Call("setRed", tip, <<value>>,
         toType(rgbOfArray([rgb(heap[tip]).channels EXCEPT ![1] = value]),
                heap[tip].type))

\* setGreen that writes value to the blue channel
SetGreen_asBlue ==
  \E value \in Values :
    Call("setGreen", tip, <<value>>,
         toType(rgbOfArray([rgb(heap[tip]).channels EXCEPT ![3] = value]),
                heap[tip].type))

SetGreen ==
  \E value \in Values :
    Call("setGreen", tip, <<value>>,
         toType(rgbOfArray([rgb(heap[tip]).channels EXCEPT ![2] = value]),
                heap[tip].type))

SetBlue ==
  \E value \in Values :
    Call("setBlue", tip, <<value>>,
         toType(rgbOfArray([rgb(heap[tip]).channels EXCEPT ![3] = value]),
                heap[tip].type))

SetAlpha ==
  \E value \in Alphas :
    Call("setAlpha", tip, <<value>>,
         toTransparent(rgbaWith(rgba(heap[tip]).channels, value), heap[tip].type))

SetHue ==
  \E value \in Values :
    Call("setHue", tip, <<value>>,
         toType(hslOfArray([hsl(heap[tip]).channels EXCEPT ![1] = value]),
                heap[tip].type))

SetSaturation ==
  \E value \in Values :
    Call("setSaturation", tip, <<value>>,
         toType(hslOfArray([hsl(heap[tip]).channels EXCEPT ![2] = value]),
                heap[tip].type))

SetLightness ==
  \E value \in Values :
    Call("setLightness", tip, <<value>>,
         toType(hslOfArray([hsl(heap[tip]).channels EXCEPT ![3] = value]),
                heap[tip].type))

SetValue ==
  \E value \in Values :
    Call("setValue", tip, <<value>>,
         toType(hsvOfArray([hsv(heap[tip]).channels EXCEPT ![3] = value]),
                heap[tip].type))

SetWhiteness ==
  \E value \in Values :
    Call("setWhiteness", tip, <<value>>,
         toType(hwbOfArray([hwb(heap[tip]).channels EXCEPT ![2] = value]),
                heap[tip].type))

SetBlackness ==
  \E value \in Values :
    Call("setBlackness", tip, <<value>>,
         toType(hwbOfArray([hwb(heap[tip]).channels EXCEPT ![3] = value]),
                heap[tip].type))

SetCyan ==
  \E value \in Values :
    Call("setCyan", tip, <<value>>,
         toType(cmykOfArray([cmyk(heap[tip]).channels EXCEPT ![1] = value]),
                heap[tip].type))

SetMagenta ==
  \E value \in Values :
    Call("setMagenta", tip, <<value>>,
         toType(cmykOfArray([cmyk(heap[tip]).channels EXCEPT ![2] = value]),
                heap[tip].type))

SetYellow ==
  \E value \in Values :
    Call("setYellow", tip, <<value>>,
         toType(cmykOfArray([cmyk(heap[tip]).channels EXCEPT ![3] = value]),
                heap[tip].type))

SetBlack ==
  \E value \in Values :
    Call("setBlack", tip, <<value>>,
         toType(cmykOfArray([cmyk(heap[tip]).channels EXCEPT ![4] = value]),
                heap[tip].type))

Negate ==
  Call("negate", tip, <<>>,
       toType(rgbOfArray([i \in 1..3 |-> Sub(I(255), rgb(heap[tip]).channels[i])]),
              heap[tip].type))

\* lighten with the lightness clamped to 100
Lighten_clamped ==
  \E factor \in Factors :
    Call("lighten", tip, <<factor>>,
         toType(hslOfArray([hsl(heap[tip]).channels EXCEPT
                              ![3] = Min2(Mul(@, Add(I(1), factor)), I(100))]),
                heap[tip].type))

Lighten ==
  \E factor \in Factors :
    Call("lighten", tip, <<factor>>,
         toType(hslOfArray([hsl(heap[tip]).channels EXCEPT
                              ![3] = Mul(@, Add(I(1), factor))]),
                heap[tip].type))

Darken ==
  \E factor \in Factors :
    Call("darken", tip, <<factor>>,
         toType(hslOfArray([hsl(heap[tip]).channels EXCEPT
                              ![3] = Mul(@, Sub(I(1), factor))]),
                heap[tip].type))

Saturate ==
  \E factor \in Factors :
    Call("saturate", tip, <<factor>>,
         toType(hslOfArray([hsl(heap[tip]).channels EXCEPT
                              ![2] = Mul(@, Add(I(1), factor))]),
                heap[tip].type))

Desaturate ==
  \E factor \in Factors :
    Call("desaturate", tip, <<factor>>,
         toType(hslOfArray([hsl(heap[tip]).channels EXCEPT
                              ![2] = Mul(@, Sub(I(1), factor))]),
                heap[tip].type))

\* grayscale returns an rgb Color whatever the type of this
Grayscale ==
  Call("grayscale", tip, <<>>,
       rgbOfArray([i \in 1..3 |-> grayscale_gray(rgb(heap[tip]).channels)]))

Fade ==
  \E factor \in Factors \cup {I(1)} :
    Call("fade", tip, <<factor>>,
         toTransparent(rgbaWith(rgba(heap[tip]).channels,
                                Mul(heap[tip].transparency, Sub(I(1), factor))),
                       heap[tip].type))

\* opaquer without the Math.min of line 1085
Opaquer_unclamped ==
  \E factor \in Factors :
    Call("opaquer", tip, <<factor>>,
         toTransparent(rgbaWith(rgba(heap[tip]).channels,
                                Mul(heap[tip].transparency, Add(I(1), factor))),
                       heap[tip].type))

Opaquer ==
  \E factor \in Factors :
    Call("opaquer", tip, <<factor>>,
         toTransparent(rgbaWith(rgba(heap[tip]).channels,
                                Min2(Mul(heap[tip].transparency, Add(I(1), factor)),
                                     I(1))),
                       heap[tip].type))

\* the loop of rotate never ends on a hue of -Infinity, and the call then
\* does not return
Rotate ==
  \E value \in Degrees :
    /\ ret # 0
    /\ Add(hsl(heap[tip]).channels[1], value) # Neg(Infinity)
    /\ Call("rotate", tip, <<value>>,
            toType(hslOfArray([hsl(heap[tip]).channels EXCEPT
                                 ![1] = Rem360(whileNegative(Add(@, value)))]),
                   heap[tip].type))

\* mix takes another Color object, and a weight or none; color1 and color2
\* are the rgb conversions of the two colors
Mix ==
  \E mixColor \in DOMAIN heap, weight \in Weights :
    Call("mix", tip, <<mixColor, weight>>,
         toType(mix_p(rgb(heap[mixColor]), rgb(heap[tip]),
                      IF weight = undefined THEN defaultWeight ELSE weight),
                heap[tip].type))

Alpha == Get("alpha", tip, alpha(heap[tip]))

Hue == Get("hue", tip, hue(heap[tip]))

String == Get("string", tip, string(heap[tip]))

Hex == Get("hex", tip, hex(heap[tip]))

Next ==
  \/ ToType \/ ToTransparent
  \/ SetRed \/ SetGreen \/ SetBlue \/ SetAlpha
  \/ SetHue \/ SetSaturation \/ SetLightness \/ SetValue
  \/ SetWhiteness \/ SetBlackness
  \/ SetCyan \/ SetMagenta \/ SetYellow \/ SetBlack
  \/ Negate \/ Lighten \/ Darken \/ Saturate \/ Desaturate \/ Grayscale
  \/ Fade \/ Opaquer \/ Rotate \/ Mix
  \/ Alpha \/ Hue \/ String \/ Hex

Spec == Init /\ [][Next]_vars

(***************************************************************************)
(* Properties of the manipulators and conversions                          *)
(***************************************************************************)
\* C1: a manipulator among setRed, setGreen, setBlue, setHue, setSaturation,
\* setLightness, setValue, setWhiteness, setBlackness, setCyan, setMagenta,
\* setYellow, setBlack, negate, lighten, darken, saturate, desaturate,
\* rotate and mix returns a Color of the type of its receiver, whichever of
\* the nine types that is, and a chain of such manipulators returns a Color
\* of the type of the object the chain started from.
TypePreservation ==
  op \in TypePreserving =>
    /\ heap[ret].type = heap[self].type
    /\ heap[ret].type = heap[since].type

\* a chain of two manipulators on an hwb Color, the second being rotate
TypePreservationWitness ==
  /\ op = "rotate"
  /\ self = 2
  /\ since = 1
  /\ heap[1].type = "hwb"
  /\ heap[ret].type = "hwb"

\* the alpha-carrying sibling of a type
AlphaSibling(type) ==
  CASE type \in {"rgb", "rgba"} -> "rgba"
    [] type \in {"hsl", "hsla"} -> "hsla"
    [] type \in {"hsv", "hsva"} -> "hsva"
    [] type \in {"hwb", "hwba"} -> "hwba"
    [] type = "cmyk" -> "cmyk"

\* C2: setAlpha, fade and opaquer return a Color of the alpha-carrying
\* sibling of the type of their receiver.
AlphaUpcast ==
  op \in {"setAlpha", "fade", "opaquer"} =>
    heap[ret].type = AlphaSibling(heap[self].type)

\* fade on an hsl Color has returned an hsla Color
AlphaUpcastWitness ==
  /\ op = "fade"
  /\ heap[self].type = "hsl"
  /\ heap[ret].type = "hsla"

\* C3: c.toType(c.type) is value-equal to c: same type, same channels and
\* same alpha, for every Color c that the constructors can produce.
IdentityConversion ==
  (op = "toType" /\ arg[1] = heap[self].type) => heap[ret] = heap[self]

\* the three channels of c are whole numbers in 0..255
InByteRange(c) ==
  \A i \in 1..3 : c.channels[i][2] = 1 /\ c.channels[i][1] \in 0..255

\* a <= b
Le(a, b) == Lt(a, b) \/ (a = b /\ ~isNaN(a))

\* |a - b| <= 1
Within1(a, b) == Le(Sub(a, b), I(1)) /\ Le(Sub(b, a), I(1))

\* C4: for an rgb Color c with whole channels in 0..255 and X among hsl, hsv
\* and hwb, each channel of c.toType(X).rgb() is within 1 of that channel of
\* c.  Here c is object 1, c.toType(X) object 2 and the result object 3.
RoundTripStability ==
  ( /\ op = "toType"
    /\ arg[1] = "rgb"
    /\ self = 2
    /\ heap[1].type = "rgb"
    /\ InByteRange(heap[1])
    /\ heap[2].type \in {"hsl", "hsv", "hwb"}
    /\ heap[2] = toType(heap[1], heap[2].type) )
  => \A i \in 1..3 : Within1(heap[ret].channels[i], heap[1].channels[i])

\* C5: every Color of type hwb or hwba, however it was produced, has a
\* stored whiteness and a stored blackness whose sum is at most 100.
HwbInvariant ==
  \A i \in DOMAIN heap :
    heap[i].type \in {"hwb", "hwba"} =>
      Le(Add(heap[i].channels[2], heap[i].channels[3]), I(100))

\* 0 <= h < 360
InHueRange(h) == Le(I(0), h) /\ Lt(h, I(360))

\* C6: the hue of the result of rotate, as hue() returns it and as the
\* result stores it when the receiver is an hsl or hsla Color, is at least 0
\* and less than 360.
HueWraparound ==
  op = "rotate" =>
    /\ InHueRange(hue(heap[ret]))
    /\ heap[self].type \in {"hsl", "hsla"} => InHueRange(heap[ret].channels[1])

\* C7: c.mix(c, p) is value-equal to c, for every weight p.
MixIdempotence == (op = "mix" /\ arg[1] = self) => heap[ret] = heap[self]

\* the weight of a call of mix: one half when the caller gives none
WeightOf(w) == IF w = undefined THEN Q(1, 2) ELSE w

\* round(p * b + (1 - p) * a)
Blend(a, b, p) == Math_round(Add(Mul(p, b), Mul(Sub(I(1), p), a)))

\* C8: for opaque rgb Colors a and b and a weight p in [0, 1], a.mix(b, p)
\* is the rgb Color whose every channel is round(p * b + (1 - p) * a); the
\* weight 0 returns the channels of a, the weight 1 those of b, and the
\* default weight is one half.
MixWeights ==
  ( /\ op = "mix"
    /\ heap[self].type = "rgb" /\ heap[self].transparency = I(1)
    /\ heap[arg[1]].type = "rgb" /\ heap[arg[1]].transparency = I(1)
    /\ Le(I(0), WeightOf(arg[2])) /\ Le(WeightOf(arg[2]), I(1)) )
  => /\ heap[ret].type = "rgb"
     /\ heap[ret].transparency = I(1)
     /\ \A i \in 1..3 :
          heap[ret].channels[i] =
            Blend(heap[self].channels[i], heap[arg[1]].channels[i], WeightOf(arg[2]))
     /\ arg[2] = I(0) => heap[ret].channels = heap[self].channels
     /\ arg[2] = I(1) => heap[ret].channels = heap[arg[1]].channels

\* blue mixed with red at the default weight has given rgb(128, 0, 128)
MixWeightsWitness ==
  /\ op = "mix"
  /\ arg[2] = undefined
  /\ heap[self] = Color_rgb(I(0), I(0), I(255))
  /\ heap[arg[1]] = Color_rgb(I(255), I(0), I(0))
  /\ heap[ret].channels = <<I(128), I(0), I(128)>>

\* the types that carry an alpha
AlphaCarrying == {"rgba", "hsla", "hsva", "hwba"}

\* the weight w1 of the channels of the other Color, from the weight p of
\* the call and the difference a of the two alphas
AlphaAwareW1(p, a) ==
  LET w == Sub(Mul(I(2), p), I(1))
  IN  Div(Add(IF StrictEq(Mul(w, a), I(-1)) THEN w
              ELSE Div(Add(w, a), Add(I(1), Mul(w, a))),
              I(1)),
          I(2))

\* C9: for Colors self and other of alpha-carrying types, self.mix(other, p)
\* has the alpha alpha(other) * p + alpha(self) * (1 - p), and its channels
\* are weighted by w1 and w2 = 1 - w1, w1 computed from the difference
\* a = alpha(other) - alpha(self); the channels are compared on an rgba
\* receiver, whose result is not converted any further.
MixAlphaAware ==
  ( /\ op = "mix"
    /\ heap[self].type \in AlphaCarrying
    /\ heap[arg[1]].type \in AlphaCarrying )
  => LET this == heap[self]
         other == heap[arg[1]]
         p == WeightOf(arg[2])
         w1 == AlphaAwareW1(p, Sub(alpha(other), alpha(this)))
     IN  /\ alpha(heap[ret]) =
              Add(Mul(alpha(other), p), Mul(alpha(this), Sub(I(1), p)))
         /\ this.type = "rgba" =>
              \A i \in 1..3 :
                heap[ret].channels[i] =
                  Math_round(Add(Mul(w1, rgb(other).channels[i]),
                                 Mul(Sub(I(1), w1), rgb(this).channels[i])))

RECURSIVE CommaSeparated(_)
CommaSeparated(parts) ==
  IF Len(parts) = 1 THEN parts[1]
  ELSE parts[1] \o <<",", " ">> \o CommaSeparated(Tail(parts))

\* the canonical form of the Color c: the name of its type, its channels
\* written as they are stored, a percent sign after every channel that is no
\* hue and no red, green or blue, and the alpha of an alpha-carrying type
Canonical(c) ==
  TypeNames[c.type] \o <<"(">>
  \o CommaSeparated(
       [i \in DOMAIN c.channels |->
          Number_toString(c.channels[i], 10)
          \o (IF c.type \in {"rgb", "rgba"} \/ (c.type # "cmyk" /\ i = 1)
              THEN <<>> ELSE <<"%">>)]
       \o (IF c.type \in {"rgba", "hsla", "hsva", "hwba"}
           THEN <<Number_toString(c.transparency, 10)>> ELSE <<>>))
  \o <<")">>

\* C11: string() returns the canonical form of its receiver, whatever its
\* type: cmyk(C%, M%, Y%, K%), hsl(H, S%, L%), hsla(H, S%, L%, A),
\* hsv(H, S%, V%), hsva(H, S%, V%, A), hwb(H, W%, B%), hwba(H, W%, B%, A),
\* rgb(R, G, B) or rgba(R, G, B, A), with a percent sign after every
\* saturation, lightness, value, whiteness, blackness and cmyk channel.
CanonicalFormatting == op = "string" => val = Canonical(heap[self])


\* the tokens of args that are neither empty nor a lone slash
Tokens(args) ==
  SelectSeq(split(args, <<>>), LAMBDA part : part # <<>> /\ part # <<"/">>)

\* text is a 3-digit hex, a 6-digit hex, or a functional notation, its name
\* in either case and its closing parenthesis last, with 3 or 4 arguments
\* that each start with a number
Recognized(text) ==
  \/ matchHex(text, 3)
  \/ matchHex(text, 6)
  \/ \E k \in 1..Len(text) :
       /\ text[k] = "("
       /\ text[Len(text)] = ")"
       /\ \E t \in COLOR_TYPES :
            TypeNames[t] = [i \in 1..(k - 1) |-> toLowerCase(text[i])]
       /\ Len(Tokens(SubSeq(text, k + 1, Len(text) - 1))) \in {3, 4}
       /\ \A i \in DOMAIN Tokens(SubSeq(text, k + 1, Len(text) - 1)) :
            ~isNaN(parseFloat(Tokens(SubSeq(text, k + 1, Len(text) - 1))[i]))

\* C12: Color.string(text) throws an error that carries text whenever text is
\* not a 3-digit hex, a 6-digit hex, or a recognized functional notation with
\* 3 or 4 numeric arguments; it returns no Color for such a text.
ParserRejection ==
  (op = "Color.string" /\ ~Recognized(arg[1]))
    => (ret = 0 /\ includes(val.message, arg[1]))


\* text with the letters before its first opening parenthesis in lower case
LowerCaseName(text) ==
  [i \in DOMAIN text |->
     IF \A l \in 1..i : text[l] # "(" THEN toLowerCase(text[i]) ELSE text[i]]

\* C13: Color.string accepts the name of a functional notation in any letter
\* case: a text parses to the Color that its spelling with the name in lower
\* case parses to, and throws only if that spelling throws.
ParserCaseInsensitivity ==
  op = "Color.string" =>
    IF "message" \in DOMAIN Color_string(LowerCaseName(arg[1])) THEN ret = 0
    ELSE ret = 1 /\ heap[1] = Color_string(LowerCaseName(arg[1]))


\* C14: hex() of every Color that a chain of manipulators reaches is "#"
\* followed by exactly 6 hexadecimal digits.
HexShape ==
  op = "hex" =>
    /\ Len(val) = 7
    /\ val[1] = "#"
    /\ \A i \in 2..7 : DigitValue(val[i], 16) # -1


\* C15: a Color that rgba, hsla, hsva or hwba constructs has exactly the
\* alpha that the constructor was given, the alpha 0 included, and the alpha 1
\* when it was given none.
AlphaStorage ==
  (op = "new" /\ arg[1] \in AlphaCarrying)
    => alpha(heap[ret]) = (IF Len(arg) < 5 THEN I(1) ELSE arg[5])


\* C16: c.fade(f) of a Color c of an alpha-carrying type has the alpha
\* alpha(c) * (1 - f); fade(1) gives the alpha 0.
FadeAlpha ==
  (op = "fade" /\ heap[self].type \in AlphaCarrying)
    => alpha(heap[ret]) = Mul(alpha(heap[self]), Sub(I(1), arg[1]))


\* C17: c.opaquer(f) of a Color c of an alpha-carrying type with an alpha in
\* (0, 1] has the alpha min(alpha(c) * (1 + f), 1), which is at most 1 and at
\* least alpha(c).
OpaquerAlpha ==
  (/\ op = "opaquer"
   /\ heap[self].type \in AlphaCarrying
   /\ Lt(I(0), alpha(heap[self]))
   /\ Le(alpha(heap[self]), I(1)))
    => /\ alpha(heap[ret]) =
            (IF Lt(I(1), Mul(alpha(heap[self]), Add(I(1), arg[1]))) THEN I(1)
             ELSE Mul(alpha(heap[self]), Add(I(1), arg[1])))
       /\ Le(alpha(heap[ret]), I(1))
       /\ Le(alpha(heap[self]), alpha(heap[ret]))

\* opaquer(0.5) of rgba(10, 10, 10, 0.8) has the alpha 1, not 1.2
OpaquerAlphaWitness ==
  /\ op = "opaquer"
  /\ heap[self].type = "rgba"
  /\ alpha(heap[self]) = Q(4, 5)
  /\ arg[1] = Q(1, 2)
  /\ alpha(heap[ret]) = I(1)


\* the natural space of the channel that each setter of the claim writes, and
\* the index of the channel in it
NaturalSpace ==
  [setRed |-> <<"rgb", 1>>, setGreen |-> <<"rgb", 2>>, setBlue |-> <<"rgb", 3>>,
   setHue |-> <<"hsl", 1>>, setSaturation |-> <<"hsl", 2>>,
   setLightness |-> <<"hsl", 3>>, setValue |-> <<"hsv", 3>>,
   setCyan |-> <<"cmyk", 1>>, setMagenta |-> <<"cmyk", 2>>,
   setYellow |-> <<"cmyk", 3>>, setBlack |-> <<"cmyk", 4>>]

\* C18: a channel setter called on a Color of the natural space of its
\* channel returns a Color of the same type whose named channel is
\* round(value) and whose other channels are those of the receiver.
NaturalSpaceSetters ==
  (op \in DOMAIN NaturalSpace /\ heap[self].type = NaturalSpace[op][1])
    => /\ heap[ret].type = heap[self].type
       /\ heap[ret].channels =
            [heap[self].channels EXCEPT ![NaturalSpace[op][2]] = Math_round(arg[1])]

\* setGreen(99.5) of rgb(255, 0, 0) is rgb(255, 100, 0)
NaturalSpaceSettersWitness ==
  /\ op = "setGreen"
  /\ heap[self].type = "rgb"
  /\ arg[1] = Q(199, 2)
  /\ heap[self].channels = <<I(255), I(0), I(0)>>
  /\ heap[ret].channels = <<I(255), I(100), I(0)>>


\* the channel of hsl that each scaling manipulator writes, and the sign of
\* the factor in its scale 1 + f or 1 - f
HslScaling ==
  [lighten |-> <<3, 1>>, darken |-> <<3, -1>>,
   saturate |-> <<2, 1>>, desaturate |-> <<2, -1>>]

\* C19: lighten(f), darken(f), saturate(f) and desaturate(f) of an hsl Color
\* return the hsl Color whose lightness (whose saturation) is the receiver's
\* times 1 + f or 1 - f, rounded and not clamped to [0, 100], and whose other
\* two channels are the receiver's; a lightness of 0 stays 0.
UnclampedHslScaling ==
  (op \in DOMAIN HslScaling /\ heap[self].type = "hsl")
    => /\ heap[ret].type = "hsl"
       /\ heap[ret].channels =
            [heap[self].channels EXCEPT
               ![HslScaling[op][1]] =
                  Math_round(Mul(@, Add(I(1), Mul(I(HslScaling[op][2]), arg[1]))))]
       /\ (HslScaling[op][1] = 3 /\ heap[self].channels[3] = I(0))
            => heap[ret].channels[3] = I(0)

\* lighten(0.5) of hsl(100, 50%, 75%) is hsl(100, 50%, 113%)
UnclampedHslScalingWitness ==
  /\ op = "lighten"
  /\ heap[self].type = "hsl"
  /\ heap[self].channels = <<I(100), I(50), I(75)>>
  /\ heap[ret].channels = <<I(100), I(50), I(113)>>


CmykChannel(x, k) ==
  Math_round(Mul(I(255), Mul(Sub(I(1), Div(x, I(100))), Sub(I(1), Div(k, I(100))))))

\* C21: rgb() of a cmyk Color with the channels (C, M, Y, K), each in
\* [0, 100], has the channels round(255 * (1 - C/100) * (1 - K/100)),
\* round(255 * (1 - M/100) * (1 - K/100)) and
\* round(255 * (1 - Y/100) * (1 - K/100)).
CmykToRgb ==
  (/\ op = "toType" /\ arg[1] = "rgb"
   /\ heap[self].type = "cmyk"
   /\ \A i \in 1..4 : Le(I(0), heap[self].channels[i]) /\ Le(heap[self].channels[i], I(100)))
    => heap[ret].channels =
         <<CmykChannel(heap[self].channels[1], heap[self].channels[4]),
           CmykChannel(heap[self].channels[2], heap[self].channels[4]),
           CmykChannel(heap[self].channels[3], heap[self].channels[4])>>


\* x modulo 6, for a finite x
Mod6(x) == Sub(x, Mul(I(6), Math_floor(Div(x, I(6)))))

\* the channel n (5 for red, 3 for green, 1 for blue) of the color of hue h
\* (in degrees), saturation s and value v (in [0, 1]), in [0, 1]:
\* v - v * s * max(0, min(k, 4 - k, 1)) with k = (n + h / 60) mod 6
HsvSector(h, s, v, n) ==
  Sub(v, Mul(Mul(v, s),
             Max2(I(0), Math_min(Mod6(Add(I(n), Div(h, I(60)))),
                                 Sub(I(4), Mod6(Add(I(n), Div(h, I(60))))),
                                 I(1)))))

\* the channels of hsv(h, s, v) on the scale 0..255
HsvOn255(c) ==
  [i \in 1..3 |->
     Math_round(Mul(I(255), HsvSector(c[1], Div(c[2], I(100)), Div(c[3], I(100)),
                                      7 - 2 * i)))]

\* the channels of hwb(h, w, b) with w + b <= 100 on the scale 0..255: those
\* of the pure hue, scaled by 1 - w - b and raised by w
HwbOn255(c) ==
  [i \in 1..3 |->
     Math_round(Mul(I(255),
                    Add(Mul(HsvSector(c[1], I(1), I(1), 7 - 2 * i),
                            Sub(I(1), Div(Add(c[2], c[3]), I(100)))),
                        Div(c[2], I(100)))))]

InRange(x, hi) == Le(I(0), x) /\ Le(x, I(hi))

\* C22: rgb() of an hsv, hsva, hwb or hwba Color has its channels on the
\* scale 0..255: the outputs of the sector formula, which are in [0, 1], times
\* 255, rounded.
HsvHwbScale ==
  (/\ op = "toType" /\ arg[1] = "rgb"
   /\ heap[self].type \in {"hsv", "hsva", "hwb", "hwba"}
   /\ InRange(heap[self].channels[1], 360)
   /\ InRange(heap[self].channels[2], 100)
   /\ InRange(heap[self].channels[3], 100)
   /\ heap[self].type \in {"hwb", "hwba"}
        => Le(Add(heap[self].channels[2], heap[self].channels[3]), I(100)))
    => heap[ret].channels =
         (IF heap[self].type \in {"hsv", "hsva"} THEN HsvOn255(heap[self].channels)
          ELSE HwbOn255(heap[self].channels))


\* C23: cmyk(), hsl() and hsv() of an rgb or rgba Color with channels in
\* [0, 255] divide by no zero: their channels are finite, black converts to
\* cmyk(0, 0, 0, 100), a gray (max = min) to an hsl of hue and saturation 0
\* and to an hsv of hue 0, and black (max = 0) to an hsv of saturation 0.
GuardedDivisions ==
  (/\ op = "toType" /\ arg[1] \in {"cmyk", "hsl", "hsv"}
   /\ heap[self].type \in {"rgb", "rgba"}
   /\ \A i \in 1..3 : InRange(heap[self].channels[i], 255))
    => /\ \A i \in DOMAIN heap[ret].channels : isFinite(heap[ret].channels[i])
       /\ (arg[1] = "cmyk" /\ heap[self].channels = <<I(0), I(0), I(0)>>)
            => heap[ret].channels = <<I(0), I(0), I(0), I(100)>>
       /\ (arg[1] = "hsl" /\ heap[self].channels[1] = heap[self].channels[2]
                          /\ heap[self].channels[2] = heap[self].channels[3])
            => heap[ret].channels[1] = I(0) /\ heap[ret].channels[2] = I(0)
       /\ (arg[1] = "hsv" /\ heap[self].channels[1] = heap[self].channels[2]
                          /\ heap[self].channels[2] = heap[self].channels[3])
            => heap[ret].channels[1] = I(0)
       /\ (arg[1] = "hsv" /\ heap[self].channels = <<I(0), I(0), I(0)>>)
            => heap[ret].channels[2] = I(0)

\* cmyk() of the rgb Color black is cmyk(0, 0, 0, 100)
GuardedDivisionsWitness ==
  /\ op = "toType" /\ arg[1] = "cmyk"
  /\ heap[self].type = "rgb"
  /\ heap[self].channels = <<I(0), I(0), I(0)>>
  /\ heap[ret].channels = <<I(0), I(0), I(0), I(100)>>


\* the pairs of a space and its alpha-carrying sibling, in either direction
Siblings ==
  {<<"rgb", "rgba">>, <<"hsl", "hsla">>, <<"hsv", "hsva">>, <<"hwb", "hwba">>,
   <<"rgba", "rgb">>, <<"hsla", "hsl">>, <<"hsva", "hsv">>, <<"hwba", "hwb">>}

\* C24: the conversion of a Color to the sibling of its type, in either
\* direction, leaves its three channels unchanged.
SiblingCopies ==
  (op = "toType" /\ <<heap[self].type, arg[1]>> \in Siblings)
    => heap[ret].channels = heap[self].channels


\* C25: c.setAlpha(v) of a Color c of any type has the alpha v, for v in
\* (0, 1]; and rgba(), hsla(), hsva() and hwba() return a Color of the alpha
\* of their receiver.
SetAlphaValue ==
  /\ (op = "setAlpha" /\ Lt(I(0), arg[1]) /\ Le(arg[1], I(1)))
       => alpha(heap[ret]) = arg[1]
  /\ (op = "toType" /\ arg[1] \in AlphaCarrying)
       => alpha(heap[ret]) = alpha(heap[self])


\* C26: every Color of the type rgb, hsl, hsv, hwb or cmyk has the alpha 1;
\* the conversion of such a Color to an alpha-carrying type has the alpha 1
\* too, whatever the alpha of the Color it was converted from.
PlainTypesOpaque ==
  /\ \A o \in DOMAIN heap :
       heap[o].type \notin AlphaCarrying => alpha(heap[o]) = I(1)
  /\ (op = "toType" /\ arg[1] \in AlphaCarrying /\ heap[self].type \notin AlphaCarrying)
       => alpha(heap[ret]) = I(1)

\* c.rgb().rgba() of c = rgba(10, 10, 10, 0.8) has the alpha 1
PlainTypesOpaqueWitness ==
  /\ Len(heap) = 3
  /\ heap[1].type = "rgba" /\ alpha(heap[1]) = Q(4, 5)
  /\ heap[2].type = "rgb" /\ alpha(heap[2]) = I(1)
  /\ op = "toType" /\ arg[1] = "rgba" /\ self = 2 /\ ret = 3
  /\ alpha(heap[3]) = I(1)


\* C27: Color.string(c.string()) is value-equal to c, for every Color c with
\* finite integer channels (and an alpha in (0, 1] if its type carries one):
\* it has the type, the channels and the alpha of c.
CodecRoundTrip ==
  (/\ op = "string"
   /\ \A i \in DOMAIN heap[self].channels : heap[self].channels[i][2] = 1
   /\ heap[self].type \in AlphaCarrying
        => Lt(I(0), alpha(heap[self])) /\ Le(alpha(heap[self]), I(1)))
    => Color_string(val) = heap[self]


\* C28: every Color that a chain of conversions and manipulators with finite
\* arguments makes of a Color constructed with finite arguments has exactly 3
\* channels (4 if its type is cmyk), all of them finite numbers.
FiniteChannels ==
  \A o \in DOMAIN heap :
    /\ Len(heap[o].channels) = (IF heap[o].type = "cmyk" THEN 4 ELSE 3)
    /\ \A i \in DOMAIN heap[o].channels : isFinite(heap[o].channels[i])

====
